---- MODULE Spec2Model ----
(***************************************************************************)
(* Session store, token storage, route guard and Users page of the admin   *)
(* portal.                                                                 *)
(*                                                                         *)
(* One step of the model is one browser task together with the promise     *)
(* continuations it runs to completion: a store operation up to its first  *)
(* network await, or the arrival of a network response together with every *)
(* continuation chained on it.  A checkAuth whose identity fetch is        *)
(* pending and a logout whose notification is pending are the calls in     *)
(* flight; any other operation may run between their call and their        *)
(* resolution.                                                             *)
(***************************************************************************)
EXTENDS Bags, FiniteSets, Integers, Sequences, TLC

VARIABLES
    state,          \* the store's AuthState: user, isAuthenticated, isLoading, error
    persisted,      \* the projection the persist middleware last wrote
    accessToken,    \* authStorage: the stored access token
    refreshToken,   \* authStorage: the stored refresh token
    inflight,       \* bag of calls awaiting a network response
    last,           \* what the latest step did and what it handed to its caller
    twin,           \* the AuthState of a second run of the same operations, with
                    \* the same storage and responses, started from no projection
    confirmAction,  \* the mounted page's confirmation dialog
    ui              \* the rest of the mounted page: which page it is, the text
                    \* typed into its ConfirmModal, its hard-delete toggle, the
                    \* listings' selections, and the mutations it has sent

vars == <<state, persisted, accessToken, refreshToken, inflight, last, twin, confirmAction, ui>>

----------------------------------------------------------------------------
(* Bounds *)

\* calls that may await a network response at the same time
MaxInFlight == 2

----------------------------------------------------------------------------
(* Values *)

\* user: null
NoUser == [id |-> "null", role |-> "null"]
\* error: null
NoError == "null"
\* authStorage.getToken() === null
NoToken == [nparts |-> 0, payload |-> "none", sub |-> "none"]
\* authStorage.getRefreshToken() === null
NoRefresh == "null"

Roles == {"user", "creator", "moderator", "finance", "admin", "super_admin"}

\* a minimum allow-list without the finance role
ALLOWED_ADMIN_ROLES_noFinance == {"admin", "super_admin", "moderator"}

ALLOWED_ADMIN_ROLES == {"admin", "super_admin", "moderator", "finance"}

ADMIN_ROLES == {"admin", "super_admin"}

\* the identity service's records, GET /api/core/users/{id}
Directory ==
    [id \in {"u_admin", "u_mod", "u_fin", "u_user"} |->
        [id |-> id,
         role |-> CASE id = "u_admin" -> "admin"
                    [] id = "u_mod" -> "moderator"
                    [] id = "u_fin" -> "finance"
                    [] OTHER -> "user"]]

Subjects == DOMAIN Directory

\* a well-formed JWT of subject s: header.payload.signature, payload {sub: s}
Jwt(s) == [nparts |-> 3, payload |-> "json", sub |-> s]

\* the Credential Pairs the token exchange hands to login
AuthTokens ==
    {[access_token |-> Jwt(s),
      refresh_token |-> CASE s = "u_admin" -> "r_admin"
                          [] s = "u_mod" -> "r_mod"
                          [] s = "u_fin" -> "r_fin"
                          [] OTHER -> "r_user"] : s \in Subjects}

\* access tokens from which no subject known to the identity service comes out:
\* a single segment, an empty payload segment, a payload that is not
\* base64/JSON, a JSON payload with neither sub nor user_id
MalformedTokens ==
    {[nparts |-> 1, payload |-> "none", sub |-> "none"],
     [nparts |-> 2, payload |-> "empty", sub |-> "none"],
     [nparts |-> 3, payload |-> "garbage", sub |-> "none"],
     [nparts |-> 3, payload |-> "json", sub |-> "undefined"]}

\* what the browser's storage may hold when the application starts
InitialStorage ==
    {<<NoToken, NoRefresh>>, <<NoToken, "r_admin">>, <<Jwt("u_admin"), "r_admin">>}
    \cup {<<t, "r_user">> : t \in MalformedTokens}

\* error.message of a failed api call
ApiErrors == {"Network Error", "Request failed with status code 401"}

----------------------------------------------------------------------------
(* Store plumbing *)

\* zustand set(partial): shallow merge of the patch into the state
Merge(st, patch) ==
    [f \in DOMAIN st |-> IF f \in DOMAIN patch THEN patch[f] ELSE st[f]]

\* a projection that writes the whole state
partialize_all(st) == st

\* persist's partialize option
partialize(st) ==
    [user |-> st.user, isAuthenticated |-> st.isAuthenticated]

\* UsersPage: const isAdmin = !!currentUser && ADMIN_ROLES.includes(currentUser.role)
isAdmin(st) == st.user # NoUser /\ st.user.role \in ADMIN_ROLES

\* const ALLOWED_ROLES of the page's module; CreatorEditPage shares the module
\* of CreatorsPage and never reads the constant
ALLOWED_ROLES(page) ==
    CASE page = "StatsPage" -> {"admin", "super_admin", "moderator", "finance"}
      [] page \in {"CreatorsPage", "CreatorEditPage"} -> {"admin", "super_admin", "finance"}
      [] page \in {"QuestsPage", "QuestDetailPage"} -> {"admin", "super_admin", "moderator"}

\* whether the page renders its content for the store's user: StatsPage
\* redirects only a present user outside its list, CreatorEditPage reads no
\* user at all, UsersPage wants isAdmin, the others want a present user
\* inside their list
hasAccess(page, st) ==
    CASE page = "StatsPage" ->
            ~(st.user # NoUser /\ st.user.role \notin ALLOWED_ROLES(page))
      [] page = "CreatorEditPage" -> TRUE
      [] page = "UsersPage" -> isAdmin(st)
      [] OTHER -> st.user # NoUser /\ st.user.role \in ALLOWED_ROLES(page)

\* confirmAction: null
NoConfirm == [page |-> "none", type |-> "null", ids |-> {}]

\* the two listings that keep a selection, each under its own SESSION_KEY
ListingPages == {"UsersPage", "CreatorsPage"}

\* a page before anything was clicked: nothing mounted, the modal's input
\* empty, the hard-delete toggle off, no row selected, no mutation sent
InitialUi ==
    [page |-> "none", typed |-> "", hardDelete |-> FALSE,
     selectedIds |-> [p \in ListingPages |-> {}], pending |-> {}]

\* the mounted page goes away: its useState values are dropped, the selection
\* stays in sessionStorage, and the requests it sent lose their component
Unmounted(u) ==
    [u EXCEPT !.page = "none", !.typed = "", !.hardDelete = FALSE,
              !.pending = {[r EXCEPT !.live = FALSE] : r \in u.pending}]

\* the page's state after the store changed to st: gone with the page when
\* the guard stops rendering its children; the ConfirmModal, and its typed
\* text with it, gone when the page itself shows its refusal
RemountUi(st) ==
    IF st.isLoading \/ ~st.isAuthenticated
         \/ (st.user # NoUser /\ st.user.role \notin ALLOWED_ADMIN_ROLES)
    THEN Unmounted(ui)
    ELSE IF ui.page # "none" /\ ~hasAccess(ui.page, st)
    THEN [ui EXCEPT !.typed = ""]
    ELSE ui

\* the pages' component state lives only while ProtectedRoute renders its
\* children: the loading placeholder and the redirects unmount the page
Remount(st) ==
    IF st.isLoading \/ ~st.isAuthenticated
         \/ (st.user # NoUser /\ st.user.role \notin ALLOWED_ADMIN_ROLES)
    THEN NoConfirm
    ELSE confirmAction

\* set(patch) under the persist middleware: merge, then write the projection;
\* the store's subscribers render again
Set(patch) ==
    /\ state' = Merge(state, patch)
    /\ persisted' = partialize(Merge(state, patch))
    /\ twin' = Merge(twin, patch)
    /\ confirmAction' = Remount(Merge(state, patch))
    /\ ui' = RemountUi(Merge(state, patch))

\* what a step reports: the operation, whether it is the call or the
\* resolution, the branch taken, how the returned promise settled, the value,
\* the HTTP requests the step issued, and the access token it involved
Report(op, step, path, settled, value, http, token) ==
    [op |-> op, step |-> step, path |-> path, settled |-> settled,
     value |-> value, http |-> http, token |-> token]

InitialState ==
    [user |-> NoUser, isAuthenticated |-> FALSE, isLoading |-> FALSE, error |-> NoError]

Init ==
    /\ state = InitialState
    /\ persisted = partialize(InitialState)
    /\ \E s \in InitialStorage : accessToken = s[1] /\ refreshToken = s[2]
    /\ inflight = EmptyBag
    /\ last = Report("create", "call", "init", "returned", "undefined", 0, NoToken)
    /\ twin = InitialState
    /\ confirmAction = NoConfirm
    /\ ui = InitialUi

----------------------------------------------------------------------------
(* authService *)

\* authService.hasStoredToken: !!authStorage.getToken()
hasStoredToken == accessToken # NoToken

\* authService.storeTokens: authStorage.setTokens(access_token, refresh_token)
storeTokens(tokens) ==
    /\ accessToken' = tokens.access_token
    /\ refreshToken' = tokens.refresh_token

\* authStorage.clearTokens() as called by checkAuth's catch and logout's finally
clearTokens ==
    /\ accessToken' = NoToken
    /\ refreshToken' = NoRefresh

\* a parse that falls back to a default subject instead of throwing
DecodeUserId_defaultSubject(token) ==
    IF token.nparts < 2 \/ token.payload \in {"empty", "garbage"} \/ token.sub = "undefined"
    THEN [thrown |-> FALSE, userId |-> "u_admin", message |-> "none"]
    ELSE [thrown |-> FALSE, userId |-> token.sub, message |-> "none"]

\* getCurrentUser's local parse of the access token: the subject id, or the
\* exception thrown before any request is made
DecodeUserId(token) ==
    IF token.nparts < 2 \/ token.payload = "empty"
    THEN [thrown |-> TRUE, userId |-> "none", message |-> "Invalid token format"]
    ELSE IF token.payload = "garbage"
    THEN [thrown |-> TRUE, userId |-> "none", message |-> "Unexpected token in JSON"]
    ELSE [thrown |-> FALSE, userId |-> token.sub, message |-> "none"]

\* the ways api.get(`/api/core/users/${userId}`) can end
GetUserResponses(userId) ==
    (IF userId \in DOMAIN Directory
     THEN {[ok |-> TRUE, user |-> Directory[userId], message |-> "none"]}
     ELSE {[ok |-> FALSE, user |-> NoUser,
            message |-> "Request failed with status code 404"]})
    \cup {[ok |-> FALSE, user |-> NoUser, message |-> m] : m \in ApiErrors}

\* the ways api.post(API_ENDPOINTS.AUTH.LOGOUT) can end
LogoutResponses == {"ok"} \cup ApiErrors

\* try { await ... } finally { ... } with no catch: the failure is rethrown
\* once the finally block has run, in authService.logout and again in the store
TryFinally(outcome) == IF outcome = "ok" THEN "fulfilled" ELSE "rejected"

\* the ways api.post(API_ENDPOINTS.AUTH.REFRESH, { refresh_token }) can end
RefreshResponses ==
    {[ok |-> TRUE, tokens |-> t, message |-> "none"] : t \in AuthTokens}
    \cup {[ok |-> FALSE, tokens |-> [access_token |-> NoToken, refresh_token |-> NoRefresh],
            message |-> m] : m \in ApiErrors}

\* a refresh that stores the new access token only
setRefreshedTokens_accessOnly(tokens) ==
    /\ accessToken' = tokens.access_token
    /\ UNCHANGED refreshToken

\* refreshToken: authStorage.setTokens(tokens.access_token, tokens.refresh_token)
setRefreshedTokens(tokens) ==
    /\ accessToken' = tokens.access_token
    /\ refreshToken' = tokens.refresh_token

\* a catch block that lets the failure pass to the caller
TryCatch_rethrow(outcome) == IF outcome = "ok" THEN "fulfilled" ELSE "rejected"

\* try { await ...; return ... } catch (error) { ...; return false } in
\* checkAuth: whatever the try block throws, the promise fulfils
TryCatch(outcome) == "fulfilled"

\* a call awaiting its network response
Call(op, userId, token) == [op |-> op, userId |-> userId, token |-> token]

CanAwait == BagCardinality(inflight) < MaxInFlight

----------------------------------------------------------------------------
(* The patches the store's actions pass to set() *)

\* a login that does not raise the loading flag
loginSet_notLoading == [isAuthenticated |-> TRUE, isLoading |-> FALSE]

\* a login that also clears the error of the previous session
loginSet_clearsError == [isAuthenticated |-> TRUE, isLoading |-> TRUE, error |-> NoError]

loginSet == [isAuthenticated |-> TRUE, isLoading |-> TRUE]

\* a logout that forgets to drop the user
logoutFinallySet_keepsUser ==
    [isAuthenticated |-> FALSE, isLoading |-> FALSE, error |-> NoError]

logoutFinallySet ==
    [user |-> NoUser, isAuthenticated |-> FALSE, isLoading |-> FALSE, error |-> NoError]

\* a no-token branch that only drops the loading flag
checkAuthNoTokenSet_keepsAuth == [isLoading |-> FALSE]

checkAuthNoTokenSet == [isAuthenticated |-> FALSE, isLoading |-> FALSE]

\* an RBAC branch that treats the under-privileged user as unauthenticated
checkAuthDeniedSet_failClosed(user) ==
    [user |-> NoUser, isAuthenticated |-> FALSE, isLoading |-> FALSE,
     error |-> "Access Denied: Insufficient permissions"]

checkAuthDeniedSet(user) ==
    [user |-> user, isAuthenticated |-> TRUE, isLoading |-> FALSE,
     error |-> "Access Denied: Insufficient permissions"]

\* a success branch that does not store the fetched user
checkAuthSuccessSet_noUser(user) ==
    [isAuthenticated |-> TRUE, isLoading |-> FALSE, error |-> NoError]

checkAuthSuccessSet(user) ==
    [user |-> user, isAuthenticated |-> TRUE, isLoading |-> FALSE, error |-> NoError]

\* a catch block that leaves the user of an earlier resolution in place
checkAuthCatchSet_keepsUser(message) ==
    [isAuthenticated |-> FALSE, isLoading |-> FALSE, error |-> message]

\* a catch block that leaves the session authenticated
checkAuthCatchSet_keepsAuth(message) ==
    [isLoading |-> FALSE, error |-> message]

checkAuthCatchSet(message) ==
    [user |-> NoUser, isAuthenticated |-> FALSE, isLoading |-> FALSE, error |-> message]

\* two set() calls made in the same step
SetTwice(first, second) ==
    /\ state' = Merge(Merge(state, first), second)
    /\ persisted' = partialize(Merge(Merge(state, first), second))
    /\ twin' = Merge(Merge(twin, first), second)
    /\ confirmAction' = NoConfirm
    /\ ui' = Unmounted(ui)

----------------------------------------------------------------------------
(* Store actions *)

setUser(user) ==
    /\ Set([user |-> user, isAuthenticated |-> TRUE, isLoading |-> FALSE, error |-> NoError])
    /\ last' = Report("setUser", "call", "set", "returned", "undefined", 0, NoToken)
    /\ UNCHANGED <<accessToken, refreshToken, inflight>>

setLoading(loading) ==
    /\ Set([isLoading |-> loading])
    /\ last' = Report("setLoading", "call", "set", "returned", "undefined", 0, NoToken)
    /\ UNCHANGED <<accessToken, refreshToken, inflight>>

setError(error) ==
    /\ Set([error |-> error, isLoading |-> FALSE])
    /\ last' = Report("setError", "call", "set", "returned", "undefined", 0, NoToken)
    /\ UNCHANGED <<accessToken, refreshToken, inflight>>

clearError ==
    /\ Set([error |-> NoError])
    /\ last' = Report("clearError", "call", "set", "returned", "undefined", 0, NoToken)
    /\ UNCHANGED <<accessToken, refreshToken, inflight>>

login(tokens) ==
    /\ storeTokens(tokens)
    /\ Set(loginSet)
    /\ last' = Report("login", "call", "stored", "returned", "undefined", 0,
                      tokens.access_token)
    /\ UNCHANGED inflight

\* logout() up to the await of the notification; with no refresh token stored
\* nothing is awaited on the network and the call runs to its end
logout ==
    IF refreshToken # NoRefresh
    THEN /\ CanAwait
         /\ Set([isLoading |-> TRUE])
         /\ inflight' = inflight (+) SetToBag({Call("logout", "none", NoToken)})
         /\ last' = Report("logout", "call", "posting", "pending", "undefined", 1, NoToken)
         /\ UNCHANGED <<accessToken, refreshToken>>
    ELSE /\ clearTokens
         /\ SetTwice([isLoading |-> TRUE], logoutFinallySet)
         /\ last' = Report("logout", "call", "skipped", TryFinally("ok"), "undefined", 0,
                           NoToken)
         /\ UNCHANGED inflight

\* the notification's response arrives: authService.logout's finally, then the
\* store's finally
logoutResolve ==
    \E c \in BagToSet(inflight) : \E r \in LogoutResponses :
        /\ c.op = "logout"
        /\ inflight' = inflight (-) SetToBag({c})
        /\ clearTokens
        /\ Set(logoutFinallySet)
        /\ last' = Report("logout", "resolve",
                          IF r = "ok" THEN "notified" ELSE "notify_failed",
                          TryFinally(r), "undefined", 0, NoToken)

\* checkAuth() up to the await of the identity fetch; without a stored token,
\* or with a token that cannot be parsed, nothing is requested and the call
\* runs to its end
checkAuth ==
    IF ~hasStoredToken
    THEN /\ Set(checkAuthNoTokenSet)
         /\ last' = Report("checkAuth", "call", "no_token", "fulfilled", "false", 0,
                           accessToken)
         /\ UNCHANGED <<accessToken, refreshToken, inflight>>
    ELSE LET d == DecodeUserId(accessToken) IN
         IF d.thrown
         THEN /\ clearTokens
              /\ SetTwice([isLoading |-> TRUE], checkAuthCatchSet(d.message))
              /\ last' = Report("checkAuth", "call", "decode_failed", TryCatch("thrown"),
                                "false", 0, accessToken)
              /\ UNCHANGED inflight
         ELSE /\ CanAwait
              /\ Set([isLoading |-> TRUE])
              /\ inflight' = inflight (+) SetToBag({Call("checkAuth", d.userId, accessToken)})
              /\ last' = Report("checkAuth", "call", "fetching", "pending", "undefined",
                                1, accessToken)
              /\ UNCHANGED <<accessToken, refreshToken>>

\* the identity fetch's response arrives: the RBAC check, or the catch block
checkAuthResolve ==
    \E c \in BagToSet(inflight) : \E r \in GetUserResponses(c.userId) :
        /\ c.op = "checkAuth"
        /\ inflight' = inflight (-) SetToBag({c})
        /\ IF r.ok
           THEN IF r.user.role \notin ALLOWED_ADMIN_ROLES
                THEN /\ Set(checkAuthDeniedSet(r.user))
                     /\ last' = Report("checkAuth", "resolve", "denied", TryCatch("ok"),
                                       "false", 0, c.token)
                     /\ UNCHANGED <<accessToken, refreshToken>>
                ELSE /\ Set(checkAuthSuccessSet(r.user))
                     /\ last' = Report("checkAuth", "resolve", "success", TryCatch("ok"),
                                       "true", 0, c.token)
                     /\ UNCHANGED <<accessToken, refreshToken>>
           ELSE /\ clearTokens
                /\ Set(checkAuthCatchSet(r.message))
                /\ last' = Report("checkAuth", "resolve", "fetch_failed", TryCatch(r.message),
                                  "false", 0, c.token)

\* authService.refreshToken() up to the await of the exchange; without a
\* stored refresh token it throws before any request
authService_refreshToken ==
    /\ IF refreshToken = NoRefresh
       THEN /\ last' = Report("refreshToken", "call", "no_refresh_token", "rejected",
                              "No refresh token available", 0, NoToken)
            /\ UNCHANGED inflight
       ELSE /\ CanAwait
            /\ inflight' = inflight (+) SetToBag({Call("refreshToken", "none", NoToken)})
            /\ last' = Report("refreshToken", "call", "posting", "pending", "undefined",
                              1, NoToken)
    /\ UNCHANGED <<state, persisted, twin, confirmAction, ui, accessToken, refreshToken>>

\* the exchange's response arrives: the new pair is stored and returned, or
\* the rejection of api.post passes to the caller
authService_refreshTokenResolve ==
    \E c \in BagToSet(inflight) : \E r \in RefreshResponses :
        /\ c.op = "refreshToken"
        /\ inflight' = inflight (-) SetToBag({c})
        /\ IF r.ok
           THEN /\ setRefreshedTokens(r.tokens)
                /\ last' = Report("refreshToken", "resolve", "refreshed", "fulfilled",
                                  "tokens", 0, r.tokens.access_token)
           ELSE /\ last' = Report("refreshToken", "resolve", "refresh_failed", "rejected",
                                  r.message, 0, NoToken)
                /\ UNCHANGED <<accessToken, refreshToken>>
        /\ UNCHANGED <<state, persisted, twin, confirmAction, ui>>

----------------------------------------------------------------------------
(* Route guard and Users page *)

Locations == {"/stats", "/users"}

Element(element, to, from) == [element |-> element, to |-> to, from |-> from]

\* a guard that tests isAuthenticated before isLoading
ProtectedRoute_authFirst(st, location) ==
    IF ~st.isAuthenticated THEN Element("Navigate", "/login", location)
    ELSE IF st.isLoading THEN Element("LoadingFallback", "none", "none")
    ELSE IF st.user # NoUser /\ st.user.role \notin ALLOWED_ADMIN_ROLES
    THEN Element("Navigate", "/access-denied", "none")
    ELSE Element("children", "none", "none")

\* what ProtectedRoute returns for a store state and the requested location
ProtectedRoute(st, location) ==
    IF st.isLoading THEN Element("LoadingFallback", "none", "none")
    ELSE IF ~st.isAuthenticated THEN Element("Navigate", "/login", location)
    ELSE IF st.user # NoUser /\ st.user.role \notin ALLOWED_ADMIN_ROLES
    THEN Element("Navigate", "/access-denied", "none")
    ELSE Element("children", "none", "none")

\* whether the Users page's listing query runs for this render: useQuery is
\* given no enabled option, so it runs on every mount
usersQueryEnabled(admin) == TRUE

\* the other pages AppRoutes mounts under ProtectedRoute
Pages == {"StatsPage", "CreatorsPage", "CreatorEditPage", "QuestsPage", "QuestDetailPage"}

\* the route of each page
PagePath(page) ==
    CASE page = "StatsPage" -> "/stats"
      [] page = "UsersPage" -> "/users"
      [] page = "CreatorsPage" -> "/creators"
      [] page = "CreatorEditPage" -> "/creators/:userId"
      [] page = "QuestsPage" -> "/quests"
      [] page = "QuestDetailPage" -> "/quests/:questId"

\* const CAN_DELETE_ROLES of the two quest pages
CAN_DELETE_ROLES == {"admin", "super_admin"}

\* const canDelete = !!currentUser && CAN_DELETE_ROLES.includes(currentUser.role)
canDelete(st) == st.user # NoUser /\ st.user.role \in CAN_DELETE_ROLES

\* what the page shows when hasAccess is false
Refusal(page) == IF page = "StatsPage" THEN "Navigate" ELSE "AccessDenied"

\* whether the page's main query runs on this render: StatsPage passes
\* enabled: !!isAdmin, the two detail pages pass enabled: !!id with the id of
\* the route, the two listings pass no enabled option
pageQueryEnabled(page, st) ==
    IF page = "StatsPage" THEN isAdmin(st) ELSE TRUE

\* the rows of a listing
Ids == {"id1", "id2", "id3"}

\* what the user can type into the ConfirmModal's input
TypedTexts == {"CONFIRM", "confirm"}

\* the confirmation dialogs a page can open
ConfirmTypes(page) ==
    CASE page = "StatsPage" -> {}
      [] page = "UsersPage" -> {"suspend", "bulk-delete", "single-delete", "promote"}
      [] page = "CreatorsPage" -> {"suspend", "bulk-delete", "single-delete"}
      [] page = "CreatorEditPage" -> {"status-change"}
      [] page \in {"QuestsPage", "QuestDetailPage"} -> {"status-change", "delete"}

\* the useMutation a dialog's confirmation calls
MutationOf(type) ==
    CASE type \in {"suspend", "bulk-delete"} -> "bulkActionMutation"
      [] type \in {"single-delete", "delete"} -> "deleteMutation"
      [] type = "promote" -> "roleMutation"
      [] type = "status-change" -> "statusMutation"

\* mutation.isPending as the mounted page sees it
isPending(mutation) == \E r \in ui.pending : r.live /\ r.mutation = mutation

\* const isBusy = bulkActionMutation.isPending || roleMutation.isPending || ...
isBusy == \E r \in ui.pending : r.live

\* the isPending prop the page passes to the ConfirmModal of the dialog
ModalPending(page, type) ==
    IF page \in ListingPages /\ type \in {"single-delete", "bulk-delete"}
    THEN isPending("bulkActionMutation") \/ isPending("deleteMutation")
    ELSE isPending(MutationOf(type))

\* whether the button that opens the dialog can be clicked: the quest pages
\* render the delete button under canDelete &&, the listings render the bulk
\* buttons while rows are selected and disable them while isBusy
ButtonRendered(page, type, st) ==
    IF page \in {"QuestsPage", "QuestDetailPage"} /\ type = "delete"
    THEN canDelete(st)
    ELSE IF type \in {"suspend", "bulk-delete"}
    THEN ui.selectedIds[page] # {} /\ ~isBusy
    ELSE TRUE

\* the ids a dialog of the type can carry: the selection for the bulk
\* dialogs, the row's id for a single delete
PayloadIds(page, type) ==
    CASE type \in {"suspend", "bulk-delete"} -> {ui.selectedIds[page]}
      [] type = "single-delete" -> {{id} : id \in Ids}
      [] OTHER -> {{}}

\* whether the ConfirmModal shows the hard-delete checkbox
ToggleRendered(page, type) ==
    \/ page \in ListingPages /\ type = "single-delete"
    \/ page \in {"QuestsPage", "QuestDetailPage"} /\ type = "delete"

\* the page is rendered under the guard: a page mounted in place of another
\* starts from fresh useState values
Mounted(page) == IF ui.page = page THEN ui ELSE [Unmounted(ui) EXCEPT !.page = page]

\* a render of the Users page under the guard: the listing query, then the
\* access-denied panel or the table
UsersPage ==
    /\ ProtectedRoute(state, "/users").element = "children"
    /\ last' = Report("UsersPage", "render",
                      IF ~isAdmin(state) THEN "AccessDenied" ELSE "content",
                      "returned", "undefined",
                      IF usersQueryEnabled(isAdmin(state)) THEN 1 ELSE 0, NoToken)
    /\ confirmAction' = IF ui.page = "UsersPage" THEN confirmAction ELSE NoConfirm
    /\ ui' = Mounted("UsersPage")
    /\ UNCHANGED <<state, persisted, accessToken, refreshToken, inflight, twin>>

\* a render of a page under the guard: its hooks, then its role check
PageRender(page) ==
    /\ ProtectedRoute(state, PagePath(page)).element = "children"
    /\ last' = Report(page, "render",
                      IF hasAccess(page, state) THEN "content" ELSE Refusal(page),
                      "returned", "undefined",
                      IF pageQueryEnabled(page, state) THEN 1 ELSE 0, NoToken)
    /\ confirmAction' = IF ui.page = page THEN confirmAction ELSE NoConfirm
    /\ ui' = Mounted(page)
    /\ UNCHANGED <<state, persisted, accessToken, refreshToken, inflight, twin>>

\* whether the mounted page shows its content with no modal over it
ContentShown(page) ==
    /\ ui.page = page
    /\ ProtectedRoute(state, PagePath(page)).element = "children"
    /\ hasAccess(page, state)

\* whether the page's ConfirmModal is on screen
ModalShown(page) ==
    /\ ContentShown(page)
    /\ confirmAction # NoConfirm
    /\ confirmAction.page = page

\* the mutations awaiting a response at one time, at most
MaxPending == 1

\* a ConfirmModal whose button is enabled for any non-empty text
ConfirmEnabled_anyText(page) ==
    /\ ui.typed # ""
    /\ ~ModalPending(page, confirmAction.type)

\* ConfirmModal: disabled={typed !== confirmWord || isPending}
ConfirmEnabled(page) ==
    /\ ui.typed = "CONFIRM"
    /\ ~ModalPending(page, confirmAction.type)

\* ConfirmModal: useEffect(() => { if (open) setTyped(""); }, [open])
typedReset(u) == [u EXCEPT !.typed = ""]

\* a page that keeps its hard-delete toggle when the dialog closes
hardDeleteReset_none(u) == u

\* useEffect(() => { if (!confirmAction) setHardDelete(false); }, [confirmAction])
hardDeleteReset(u) == [u EXCEPT !.hardDelete = FALSE]

\* onClick of a button of the page's content: setConfirmAction({ type, payload })
setConfirmAction(page, type, ids) ==
    /\ ContentShown(page)
    /\ confirmAction = NoConfirm
    /\ type \in ConfirmTypes(page)
    /\ ButtonRendered(page, type, state)
    /\ ids \in PayloadIds(page, type)
    /\ confirmAction' = [page |-> page, type |-> type, ids |-> ids]
    /\ ui' = typedReset(ui)
    /\ last' = Report(page, "dialog", type, "returned", "undefined", 0, NoToken)
    /\ UNCHANGED <<state, persisted, accessToken, refreshToken, inflight, twin>>

\* onChange of the ConfirmModal's input: setTyped(e.target.value)
setTyped(page, text) ==
    /\ ModalShown(page)
    /\ ui' = [ui EXCEPT !.typed = text]
    /\ last' = Report(page, "dialog", "typed", "returned", "undefined", 0, NoToken)
    /\ UNCHANGED <<state, persisted, accessToken, refreshToken, inflight, twin, confirmAction>>

\* onChange of the hard-delete checkbox: setHardDelete(e.target.checked)
setHardDelete(page, checked) ==
    /\ ModalShown(page)
    /\ ToggleRendered(page, confirmAction.type)
    /\ ui' = [ui EXCEPT !.hardDelete = checked]
    /\ last' = Report(page, "dialog", "toggled", "returned", "undefined", 0, NoToken)
    /\ UNCHANGED <<state, persisted, accessToken, refreshToken, inflight, twin, confirmAction>>

\* toggleSelect(id) of a listing; the effect on selectedIds saves the
\* selection to sessionStorage
toggleSelect(page, id) ==
    /\ page \in ListingPages
    /\ ContentShown(page)
    /\ confirmAction = NoConfirm
    /\ ui' = [ui EXCEPT !.selectedIds[page] =
                  IF id \in @ THEN @ \ {id} ELSE @ \cup {id}]
    /\ last' = Report(page, "select", "toggled", "returned", "undefined", 0, NoToken)
    /\ UNCHANGED <<state, persisted, accessToken, refreshToken, inflight, twin, confirmAction>>

\* the request executeConfirmedAction sends for the open dialog: the hard
\* flag goes to deleteMutation only
Request(page) ==
    [page |-> page, mutation |-> MutationOf(confirmAction.type),
     action |-> confirmAction.type, ids |-> confirmAction.ids,
     hard |-> MutationOf(confirmAction.type) = "deleteMutation" /\ ui.hardDelete,
     live |-> TRUE]

\* onConfirm of the page's ConfirmModal, clicked while its button is enabled:
\* the mutation of the dialog's type is sent
executeConfirmedAction(page) ==
    /\ ModalShown(page)
    /\ ConfirmEnabled(page)
    /\ Cardinality(ui.pending) < MaxPending
    /\ ui' = [ui EXCEPT !.pending = @ \cup {Request(page)}]
    /\ last' = Report(page, "mutate", confirmAction.type, "pending",
                      IF Request(page).hard THEN "hard" ELSE "soft", 1, NoToken)
    /\ UNCHANGED <<state, persisted, accessToken, refreshToken, inflight, twin, confirmAction>>

\* onCancel of the ConfirmModal (Cancel, the backdrop, Escape):
\* setConfirmAction(null), then the page's effect on confirmAction
closeConfirm(page) ==
    /\ ModalShown(page)
    /\ confirmAction' = NoConfirm
    /\ ui' = hardDeleteReset(ui)
    /\ last' = Report(page, "dialog", "closed", "returned", "undefined", 0, NoToken)
    /\ UNCHANGED <<state, persisted, accessToken, refreshToken, inflight, twin>>

\* the ways a request can end: a bulk action reports the ids it succeeded
\* on and those it failed on, any request can fail as a whole
MutationResponses(r) ==
    {[ok |-> TRUE, succeeded |-> S, failed |-> r.ids \ S] :
        S \in IF r.mutation = "bulkActionMutation" THEN SUBSET r.ids ELSE {r.ids}}
    \cup {[ok |-> FALSE, succeeded |-> {}, failed |-> {}]}

\* the selection after onSuccess: bulkActionMutation removes the succeeded
\* ids, the creators' deleteMutation removes the deleted id
SelectionAfter(r, response) ==
    IF ~response.ok \/ r.page \notin ListingPages
    THEN ui.selectedIds
    ELSE IF r.mutation = "bulkActionMutation"
            \/ (r.mutation = "deleteMutation" /\ r.page = "CreatorsPage")
    THEN [ui.selectedIds EXCEPT ![r.page] = @ \ response.succeeded]
    ELSE ui.selectedIds

\* a request's response arrives: onSuccess or onError of its useMutation set
\* the state of the component that sent it, which does nothing once that
\* component is gone; the step reports the ids the response names as succeeded
mutationSettled ==
    \E r \in ui.pending : \E response \in MutationResponses(r) :
        /\ IF r.live
           THEN /\ confirmAction' = NoConfirm
                /\ ui' = hardDeleteReset(
                            [ui EXCEPT !.pending = @ \ {r},
                                       !.selectedIds = SelectionAfter(r, response)])
           ELSE /\ ui' = [ui EXCEPT !.pending = @ \ {r}]
                /\ UNCHANGED confirmAction
        /\ last' = Report(r.page, IF r.live THEN "settled" ELSE "settled_unmounted",
                          r.mutation, IF response.ok THEN "fulfilled" ELSE "rejected",
                          response.succeeded, 0, NoToken)
        /\ UNCHANGED <<state, persisted, accessToken, refreshToken, inflight, twin>>

----------------------------------------------------------------------------
(* Specifications *)

\* the messages setError is called with
ErrorInputs == {NoError, "Network Error"}

\* login, checkAuth and logout, in any order and interleaving
NextSession ==
    \/ \E tokens \in AuthTokens : login(tokens)
    \/ logout
    \/ logoutResolve
    \/ checkAuth
    \/ checkAuthResolve

SpecSession == Init /\ [][NextSession]_vars

Next ==
    \/ \E tokens \in AuthTokens : login(tokens)
    \/ logout
    \/ logoutResolve
    \/ checkAuth
    \/ checkAuthResolve
    \/ \E id \in Subjects : setUser(Directory[id])
    \/ \E loading \in BOOLEAN : setLoading(loading)
    \/ \E error \in ErrorInputs : setError(error)
    \/ clearError
    \/ UsersPage
    \/ authService_refreshToken
    \/ authService_refreshTokenResolve

Spec == Init /\ [][Next]_vars

\* the pages under the guard, for whoever setUser makes the current user
NextPages ==
    \/ \E id \in Subjects : setUser(Directory[id])
    \/ UsersPage
    \/ \E page \in Pages : PageRender(page)
    \/ \E page \in Pages : \E type \in {"status-change", "delete", "single-delete"} :
          \E ids \in {{}, {"id1"}} : setConfirmAction(page, type, ids)
    \/ \E page \in Pages : setTyped(page, "CONFIRM")
    \/ \E page \in Pages : executeConfirmedAction(page)
    \/ \E page \in Pages : closeConfirm(page)
    \/ mutationSettled

SpecPages == Init /\ [][NextPages]_vars

\* the dialogs the specifications below open
DialogTypes == {"suspend", "bulk-delete", "single-delete", "promote"}

\* the Users page and its dialogs, for an admin or a finance user, with the
\* Stats page to leave it for
NextModal ==
    \/ \E id \in {"u_admin", "u_fin"} : setUser(Directory[id])
    \/ UsersPage
    \/ PageRender("StatsPage")
    \/ \E type \in DialogTypes : \E ids \in {{}, {"id1"}} :
          setConfirmAction("UsersPage", type, ids)
    \/ \E text \in TypedTexts : setTyped("UsersPage", text)
    \/ \E checked \in BOOLEAN : setHardDelete("UsersPage", checked)
    \/ toggleSelect("UsersPage", "id1")
    \/ executeConfirmedAction("UsersPage")
    \/ closeConfirm("UsersPage")
    \/ mutationSettled

SpecModal == Init /\ [][NextModal]_vars

\* the Users page's selection and bulk dialogs for an admin, with the Stats
\* page to leave it for
NextBulk ==
    \/ setUser(Directory["u_admin"])
    \/ UsersPage
    \/ PageRender("StatsPage")
    \/ \E id \in Ids : toggleSelect("UsersPage", id)
    \/ \E type \in {"suspend", "bulk-delete"} : \E ids \in SUBSET Ids :
          setConfirmAction("UsersPage", type, ids)
    \/ setTyped("UsersPage", "CONFIRM")
    \/ executeConfirmedAction("UsersPage")
    \/ closeConfirm("UsersPage")
    \/ mutationSettled

SpecBulk == Init /\ [][NextBulk]_vars

-----------------------------------------------------------------------------
(* pagination *)

\* the largest total_pages a listing response carries
MaxPages == 10

\* an entry of the range: a page number or the "..." marker
Num(i) == [kind |-> "number", page |-> i]
Ellipsis == [kind |-> "...", page |-> 0]

Max(a, b) == IF a > b THEN a ELSE b
Min(a, b) == IF a < b THEN a ELSE b

\* for (let i = start; i <= end; i++) pages.push(i)
RECURSIVE pushRange(_, _, _)
pushRange(pages, i, end) ==
    IF i <= end THEN pushRange(Append(pages, Num(i)), i + 1, end) ELSE pages

\* a range that never pushes the "..." marker
usePaginationRange_noEllipsis(totalPages, currentPage) ==
    IF totalPages <= 7
    THEN pushRange(<<>>, 1, totalPages)
    ELSE Append(pushRange(<<Num(1)>>, Max(2, currentPage - 1),
                          Min(totalPages - 1, currentPage + 1)),
                Num(totalPages))

usePaginationRange(totalPages, currentPage) ==
    IF totalPages <= 7
    THEN pushRange(<<>>, 1, totalPages)
    ELSE LET p1 == <<Num(1)>>
             p2 == IF currentPage > 3 THEN Append(p1, Ellipsis) ELSE p1
             start == Max(2, currentPage - 1)
             end == Min(totalPages - 1, currentPage + 1)
             p3 == pushRange(p2, start, end)
             p4 == IF currentPage < totalPages - 2 THEN Append(p3, Ellipsis) ELSE p3
         IN  Append(p4, Num(totalPages))

\* the older Users page computes its range inside the JSX
inlinePageRange(total, current) ==
    IF total <= 7
    THEN pushRange(<<>>, 1, total)
    ELSE LET p1 == <<Num(1)>>
             p2 == IF current > 3 THEN Append(p1, Ellipsis) ELSE p1
             start == Max(2, current - 1)
             end == Min(total - 1, current + 1)
             p3 == pushRange(p2, start, end)
             p4 == IF current < total - 2 THEN Append(p3, Ellipsis) ELSE p3
         IN  Append(p4, Num(total))

\* what the two pages render for the same listing
RenderedRanges(total, current) ==
    [hook |-> usePaginationRange(total, current),
     inline |-> inlinePageRange(total, current)]

\* a listing page with the pagination of its response and its page state
PaginationUi(total, current) ==
    [page |-> "UsersPage", typed |-> "", hardDelete |-> FALSE,
     selectedIds |-> [p \in ListingPages |-> {}], pending |-> {},
     totalPages |-> total, currentPage |-> current]

\* the Users page mounted for an admin, its listing loaded
InitPagination ==
    /\ state = [InitialState EXCEPT !.user = Directory["u_admin"],
                                    !.isAuthenticated = TRUE]
    /\ persisted = partialize(state)
    /\ \E s \in InitialStorage : s[1] # NoToken /\ accessToken = s[1] /\ refreshToken = s[2]
    /\ inflight = EmptyBag
    /\ twin = InitialState
    /\ confirmAction = NoConfirm
    /\ \E total \in 1..MaxPages : \E current \in 1..total :
          /\ ui = PaginationUi(total, current)
          /\ last = Report("UsersPage", "paginate", "render", "returned",
                           RenderedRanges(total, current), 0, NoToken)

\* a page button, Previous or Next: the bar is rendered for more than one
\* page, the buttons are the numbers of the range
setPage(p) ==
    /\ ui.totalPages > 1
    /\ \/ \E i \in 1..Len(usePaginationRange(ui.totalPages, ui.currentPage)) :
             usePaginationRange(ui.totalPages, ui.currentPage)[i] = Num(p)
       \/ ui.currentPage > 1 /\ p = Max(1, ui.currentPage - 1)
       \/ ui.currentPage < ui.totalPages /\ p = Min(ui.totalPages, ui.currentPage + 1)
    /\ ui' = [ui EXCEPT !.currentPage = p]
    /\ last' = Report("UsersPage", "paginate", "setPage", "returned",
                      RenderedRanges(ui.totalPages, p), 0, NoToken)
    /\ UNCHANGED <<state, persisted, accessToken, refreshToken, inflight, twin, confirmAction>>

\* a filter change: back to page 1, and the listing of the new filter loads
setFilter(total) ==
    /\ ui' = [ui EXCEPT !.currentPage = 1, !.totalPages = total]
    /\ last' = Report("UsersPage", "paginate", "setFilter", "returned",
                      RenderedRanges(total, 1), 0, NoToken)
    /\ UNCHANGED <<state, persisted, accessToken, refreshToken, inflight, twin, confirmAction>>

NextPagination ==
    \/ \E p \in 1..MaxPages : setPage(p)
    \/ \E total \in 1..MaxPages : setFilter(total)

SpecPagination == InitPagination /\ [][NextPagination]_vars

-----------------------------------------------------------------------------
(* Logout buttons and the router *)

\* the routes AppRoutes puts under ProtectedRoute
DashboardPaths == {PagePath(page) : page \in Pages \cup {"UsersPage"}}

\* the components with a Logout button
LogoutCallers == {"DashboardLayout", "AccessDeniedPage"}

\* the location once the router has rendered store state st at path: under
\* the guard a Navigate element replaces it, /login and /access-denied are
\* rendered as they are
Routed(st, path) ==
    IF path \in DashboardPaths /\ ProtectedRoute(st, path).element = "Navigate"
    THEN ProtectedRoute(st, path).to
    ELSE path

\* no page state, the router at path, and no logout() awaited by a caller
LogoutUi(path) ==
    [page |-> "none", typed |-> "", hardDelete |-> FALSE,
     selectedIds |-> [p \in ListingPages |-> {}], pending |-> {},
     location |-> path, awaiting |-> EmptyBag]

\* a session checkAuth has settled: an allowed user on a dashboard route, or
\* a refused user on /access-denied; the tokens of the login are in storage,
\* or storage has been emptied since
InitLogout ==
    /\ \E id \in Subjects : \E path \in DashboardPaths \cup {"/access-denied"} :
          /\ state = Merge(InitialState,
                           IF Directory[id].role \in ALLOWED_ADMIN_ROLES
                           THEN checkAuthSuccessSet(Directory[id])
                           ELSE checkAuthDeniedSet(Directory[id]))
          /\ path = Routed(state, path)
          /\ (path = "/access-denied") = (Directory[id].role \notin ALLOWED_ADMIN_ROLES)
          /\ ui = LogoutUi(path)
          /\ \/ \E tokens \in AuthTokens :
                   /\ tokens.access_token = Jwt(id)
                   /\ accessToken = tokens.access_token
                   /\ refreshToken = tokens.refresh_token
             \/ accessToken = NoToken /\ refreshToken = NoRefresh
    /\ persisted = partialize(state)
    /\ twin = state
    /\ inflight = EmptyBag
    /\ confirmAction = NoConfirm
    /\ last = Report("create", "call", "init", "returned", "undefined", 0, NoToken)

\* whether the caller's Logout button is on screen
LogoutButtonRendered(caller) ==
    IF caller = "DashboardLayout"
    THEN /\ ui.location \in DashboardPaths
         /\ ProtectedRoute(state, ui.location).element = "children"
    ELSE ui.location = "/access-denied"

\* a sidebar link of the dashboard
Link(path) ==
    /\ LogoutButtonRendered("DashboardLayout")
    /\ ui' = [ui EXCEPT !.location = path]
    /\ last' = Report("DashboardLayout", "navigate", path, "returned", "undefined", 0, NoToken)
    /\ UNCHANGED <<state, persisted, accessToken, refreshToken, inflight, twin, confirmAction>>

\* a click on Logout: logout() up to the await of the notification; with no
\* refresh token stored the call runs to its end and the caller goes on to
\* /login
handleLogout(caller) ==
    /\ LogoutButtonRendered(caller)
    /\ IF refreshToken # NoRefresh
       THEN /\ CanAwait
            /\ state' = Merge(state, [isLoading |-> TRUE])
            /\ twin' = Merge(twin, [isLoading |-> TRUE])
            /\ inflight' = inflight (+) SetToBag({Call("logout", "none", NoToken)})
            /\ ui' = [ui EXCEPT !.awaiting = @ (+) SetToBag({caller})]
            /\ last' = Report(caller, "call", "posting", "pending", ui.location, 1, NoToken)
            /\ UNCHANGED <<accessToken, refreshToken>>
       ELSE /\ clearTokens
            /\ state' = Merge(Merge(state, [isLoading |-> TRUE]), logoutFinallySet)
            /\ twin' = Merge(Merge(twin, [isLoading |-> TRUE]), logoutFinallySet)
            /\ ui' = [ui EXCEPT !.location =
                          IF TryFinally("ok") = "fulfilled" THEN "/login"
                          ELSE Routed(state', ui.location)]
            /\ last' = Report(caller, "call", "skipped", TryFinally("ok"), "/login", 0, NoToken)
            /\ UNCHANGED inflight
    /\ persisted' = partialize(state')
    /\ confirmAction' = NoConfirm

\* the notification's response arrives: authService.logout's finally, the
\* store's finally, the router's render of the new state, and the caller's
\* continuation if the promise it awaits is fulfilled
logoutSettled ==
    \E caller \in BagToSet(ui.awaiting) : \E r \in LogoutResponses :
        /\ inflight' = inflight (-) SetToBag({Call("logout", "none", NoToken)})
        /\ clearTokens
        /\ state' = Merge(state, logoutFinallySet)
        /\ twin' = Merge(twin, logoutFinallySet)
        /\ persisted' = partialize(state')
        /\ confirmAction' = NoConfirm
        /\ ui' = [ui EXCEPT !.awaiting = @ (-) SetToBag({caller}),
                            !.location = IF TryFinally(r) = "fulfilled" THEN "/login"
                                         ELSE Routed(state', ui.location)]
        /\ last' = Report(caller, "resolve",
                          IF r = "ok" THEN "notified" ELSE "notify_failed",
                          TryFinally(r), ui'.location, 0, NoToken)

NextLogout ==
    \/ \E path \in DashboardPaths : Link(path)
    \/ \E caller \in LogoutCallers : handleLogout(caller)
    \/ logoutSettled

\* every logout request completes
SpecLogout == InitLogout /\ [][NextLogout]_vars /\ WF_vars(logoutSettled)

\* the projections the persist middleware can find in localStorage when the
\* store is created: what partialize wrote in an earlier page load
Projections ==
    [user : {NoUser} \cup {Directory[id] : id \in Subjects}, isAuthenticated : BOOLEAN]

\* the store as created in a browser that holds a projection: persist merges
\* the projection over the initial state; the twin is created without one
InitBoot ==
    /\ \E projection \in Projections :
          /\ state = Merge(InitialState, projection)
          /\ persisted = projection
    /\ \E s \in InitialStorage : accessToken = s[1] /\ refreshToken = s[2]
    /\ inflight = EmptyBag
    /\ last = Report("create", "call", "init", "returned", "undefined", 0, NoToken)
    /\ twin = InitialState
    /\ confirmAction = NoConfirm
    /\ ui = InitialUi

\* the session operations on a rehydrated store
SpecBoot == InitBoot /\ [][NextSession]_vars

----------------------------------------------------------------------------
(* Claims *)

TokensAbsent == accessToken = NoToken /\ refreshToken = NoRefresh

\* C1 (as stated): in every reachable Session state, isAuthenticated = true
\* implies user # null.
C1_AuthenticatedImpliesUser ==
    state.isAuthenticated => state.user # NoUser

\* C1 (amended): in every Session state reachable by login, checkAuth and
\* logout in which isLoading = false, isAuthenticated = true implies
\* user # null.
C1_SettledAuthenticatedImpliesUser ==
    (state.isAuthenticated /\ ~state.isLoading) => state.user # NoUser

\* a checkAuth that followed a login has settled an authenticated session
C1_Witness ==
    /\ last.op = "checkAuth"
    /\ last.step = "resolve"
    /\ state.isAuthenticated
    /\ ~state.isLoading
    /\ state.user # NoUser

\* C2: when checkAuth was called with a stored access token and the identity
\* fetch fails, the session ends unauthenticated with no user, not loading,
\* an error message set, no tokens in storage, and checkAuth returns false.
C2_FailClosedOnFetchError ==
    (last.op = "checkAuth" /\ last.path = "fetch_failed") =>
        /\ last.token # NoToken
        /\ state.isAuthenticated = FALSE
        /\ state.user = NoUser
        /\ state.isLoading = FALSE
        /\ state.error # NoError
        /\ TokensAbsent
        /\ last.settled = "fulfilled"
        /\ last.value = "false"

C2_Witness ==
    /\ last.op = "checkAuth"
    /\ last.path = "fetch_failed"
    /\ state.error = "Request failed with status code 401"

\* C3: the promise returned by the store's logout() never rejects, also when
\* the server-side notification fails.
C3_LogoutNeverRejects ==
    last.op = "logout" => last.settled # "rejected"

\* C4: once logout() has run to completion, from any state and whether the
\* notification succeeded, failed or was skipped, no token is stored and the
\* Session is user=null, isAuthenticated=false, isLoading=false, error=null.
C4_LogoutResetsSession ==
    (last.op = "logout" /\ last.settled # "pending") =>
        /\ TokensAbsent
        /\ state.user = NoUser
        /\ state.isAuthenticated = FALSE
        /\ state.isLoading = FALSE
        /\ state.error = NoError

C4_Witness ==
    /\ last.op = "logout"
    /\ last.path = "notify_failed"
    /\ BagCardinality(inflight) > 0

\* C5: a render of the Users page for a user outside {admin, super_admin}
\* shows the access-denied panel and issues no request to the listing
\* endpoint.
C5_DeniedUsersPageFetchesNothing ==
    (last.op = "UsersPage" /\ ~isAdmin(state)) =>
        (last.path = "AccessDenied" /\ last.http = 0)

\* C6: when checkAuth's fetch succeeds with a role outside the minimum
\* allow-list, the step leaves user = the fetched identity,
\* isAuthenticated=true, the access-denied error, isLoading=false, returns
\* false, and leaves both stored tokens as they were.
C6_InsufficientRoleKeepsCredentials ==
    [][(last'.op = "checkAuth" /\ last'.path = "denied") =>
        /\ state'.user = Directory[last'.token.sub]
        /\ state'.user.role \notin {"admin", "super_admin", "moderator", "finance"}
        /\ state'.isAuthenticated = TRUE
        /\ state'.error = "Access Denied: Insufficient permissions"
        /\ state'.isLoading = FALSE
        /\ last'.settled = "fulfilled"
        /\ last'.value = "false"
        /\ accessToken' = accessToken
        /\ refreshToken' = refreshToken]_vars

C6_Witness ==
    /\ last.op = "checkAuth"
    /\ last.path = "denied"
    /\ accessToken = Jwt("u_user")
    /\ refreshToken = "r_user"

\* C7: a checkAuth called while no access token is stored, a refresh token
\* being stored or not, leaves isAuthenticated=false and isLoading=false,
\* returns false, issues no HTTP request and leaves nothing in flight behind.
C7_NoTokenNoNetwork ==
    [][(last'.op = "checkAuth" /\ last'.step = "call" /\ accessToken = NoToken) =>
        /\ state'.isAuthenticated = FALSE
        /\ state'.isLoading = FALSE
        /\ last'.settled = "fulfilled"
        /\ last'.value = "false"
        /\ last'.http = 0
        /\ inflight' = inflight]_vars

\* the asymmetric case: only a refresh token is stored
C7_Witness ==
    /\ last.op = "checkAuth"
    /\ last.step = "call"
    /\ last.token = NoToken
    /\ refreshToken # NoRefresh

\* C8: a checkAuth called right after login(creds) reads creds' access token
\* and fetches; a checkAuth whose fetch succeeds with a role in the minimum
\* allow-list leaves user = the identity of the subject in the token it
\* read, isAuthenticated=true, error=null, isLoading=false, and returns true.
C8_RoundTrip ==
    [][/\ (last.op = "login" /\ last'.op = "checkAuth" /\ last'.step = "call") =>
            (last'.token = last.token /\ last'.path = "fetching" /\ last'.http = 1)
       /\ (last'.op = "checkAuth" /\ last'.path = "success") =>
            /\ state'.user = Directory[last'.token.sub]
            /\ state'.user.role \in {"admin", "super_admin", "moderator", "finance"}
            /\ state'.isAuthenticated = TRUE
            /\ state'.error = NoError
            /\ state'.isLoading = FALSE
            /\ last'.settled = "fulfilled"
            /\ last'.value = "true"]_vars

\* the subject u_mod can only have come from a login
C8_Witness ==
    /\ last.op = "checkAuth"
    /\ last.path = "success"
    /\ last.token = Jwt("u_mod")
    /\ state.user = Directory["u_mod"]

\* C9: the persisted projection holds the fields user and isAuthenticated
\* and nothing else: no access or refresh token, no isLoading, no error.
C9_ProjectionHoldsNoSecrets ==
    /\ DOMAIN persisted \subseteq {"user", "isAuthenticated"}
    /\ persisted.user \in {NoUser} \cup {Directory[id] : id \in Subjects}
    /\ persisted.isAuthenticated \in BOOLEAN

\* tokens are stored and a failure message is set while the projection is
\* written
C9_Witness ==
    /\ accessToken # NoToken
    /\ refreshToken # NoRefresh
    /\ state.error # NoError
    /\ state.isLoading
    /\ persisted.isAuthenticated

C11_PageChecksItsAllowList ==
    (/\ last.op \in Pages \cup {"UsersPage"}
     /\ \/ last.step = "render" /\ last.path = "content"
        \/ last.step = "mutate"
     /\ state.user # NoUser)
    => state.user.role \in (IF last.op = "UsersPage" THEN ADMIN_ROLES ELSE ALLOWED_ROLES(last.op))

\* C12: a quest delete request is sent only while the store's user holds a
\* role of CAN_DELETE_ROLES
C12_DeleteCheckedWhenInvoked ==
    (/\ last.op \in {"QuestsPage", "QuestDetailPage"}
     /\ last.step = "mutate"
     /\ last.path = "delete")
    => canDelete(state)

\* a checkAuth of the finance user's token whose identity fetch succeeded
FinanceFetched ==
    /\ last.op = "checkAuth"
    /\ last.step = "resolve"
    /\ last.path \in {"success", "denied"}
    /\ last.token = Jwt("u_fin")

\* C13 as stated: the finance user's successful checkAuth leaves
\* isAuthenticated = true, user # null and error # null
C13_FinanceFailOpenWithError ==
    FinanceFetched =>
        /\ state.isAuthenticated
        /\ state.user # NoUser
        /\ state.error # NoError

\* C13: the finance user's successful checkAuth leaves isAuthenticated = true,
\* user = the fetched finance user and error = null, and returns true
C13_FinanceAuthenticatedNoError ==
    FinanceFetched =>
        /\ state.isAuthenticated
        /\ state.user = Directory["u_fin"]
        /\ state.user.role = "finance"
        /\ state.error = NoError
        /\ last.value = "true"

C13_Witness == FinanceFetched /\ state.user.role = "finance" /\ ~state.isLoading

\* a checkAuth that has run to its end for a stored token from which no
\* subject id can be read
MalformedChecked ==
    /\ last.op = "checkAuth"
    /\ last.settled # "pending"
    /\ last.token \in MalformedTokens

\* C14: a checkAuth of a token without a decodable subject ends as a failed
\* identity fetch does: both tokens removed, user = null, isAuthenticated =
\* false, isLoading = false, error set, false returned
C14_MalformedTokenFailsClosed ==
    MalformedChecked =>
        /\ last.path \in {"decode_failed", "fetch_failed"}
        /\ TokensAbsent
        /\ state.user = NoUser
        /\ ~state.isAuthenticated
        /\ ~state.isLoading
        /\ state.error # NoError
        /\ last.settled = "fulfilled"
        /\ last.value = "false"

C14_Witness == MalformedChecked /\ last.path = "decode_failed" /\ TokensAbsent

\* C15: a login step stores the given token pair, sets isAuthenticated and
\* isLoading, keeps user and error, and issues no request
C15_LoginFrame ==
    [][last'.op = "login" =>
          /\ [access_token |-> accessToken', refresh_token |-> refreshToken'] \in AuthTokens
          /\ accessToken' = last'.token
          /\ state'.isAuthenticated
          /\ state'.isLoading
          /\ state'.user = state.user
          /\ state'.error = state.error
          /\ last'.http = 0
          /\ inflight' = inflight]_vars

C15_Witness ==
    /\ last.op = "login"
    /\ state.isAuthenticated /\ state.isLoading
    /\ state.user # NoUser
    /\ state.error # NoError

\* C16: when a checkAuth has run to its end, user, isAuthenticated, isLoading
\* and error are those of the run that started without a projection
C16_CheckAuthSupersedesProjection ==
    (last.op = "checkAuth" /\ last.settled = "fulfilled") =>
        /\ state.user = twin.user
        /\ state.isAuthenticated = twin.isAuthenticated
        /\ state.isLoading = twin.isLoading
        /\ state.error = twin.error

\* C17: at most one session operation is in flight at a time
C17_SingleInFlight == BagCardinality(inflight) <= 1

\* what the resolution reported by r writes, read back from the store st
WrittenBy(r, st) ==
    CASE r.path = "success" ->
            /\ st.user = Directory[r.token.sub]
            /\ st.isAuthenticated
            /\ st.error = NoError
      [] r.path = "denied" ->
            /\ st.user = Directory[r.token.sub]
            /\ st.isAuthenticated
            /\ st.error = "Access Denied: Insufficient permissions"
      [] OTHER ->
            /\ st.user = NoUser
            /\ ~st.isAuthenticated
            /\ st.error \in ApiErrors \cup {"Request failed with status code 404"}

\* C18: when a checkAuth resolves right after another checkAuth that was in
\* flight with it, user, isAuthenticated and error are those of the later
\* resolution alone: a later failure replaces an earlier success
C18_LastResolvedWins ==
    [][(/\ last.op = "checkAuth" /\ last.step = "resolve"
        /\ last'.op = "checkAuth" /\ last'.step = "resolve")
       => WrittenBy(last', state')]_vars

C18_Witness ==
    /\ last.op = "checkAuth" /\ last.step = "resolve" /\ last.path = "success"
    /\ state.user # NoUser /\ state.isAuthenticated
    /\ \E c \in BagToSet(inflight) : c.op = "checkAuth"

\* C19: refreshToken() without a stored refresh token rejects with the
\* no-refresh-token error, requests nothing and leaves storage alone; a
\* successful exchange stores both tokens of the returned pair; a failed
\* exchange rejects and leaves both stored tokens alone
C19_RefreshToken ==
    [][last'.op = "refreshToken" =>
          /\ (last'.step = "call" /\ refreshToken = NoRefresh) =>
                /\ last'.settled = "rejected"
                /\ last'.value = "No refresh token available"
                /\ last'.http = 0
                /\ inflight' = inflight
                /\ UNCHANGED <<accessToken, refreshToken>>
          /\ (last'.step = "call" /\ refreshToken # NoRefresh) =>
                /\ last'.settled = "pending"
                /\ last'.http = 1
                /\ UNCHANGED <<accessToken, refreshToken>>
          /\ (last'.step = "resolve" /\ last'.settled = "fulfilled") =>
                /\ accessToken' = last'.token
                /\ [access_token |-> accessToken', refresh_token |-> refreshToken']
                       \in AuthTokens
          /\ (last'.step = "resolve" /\ last'.settled = "rejected") =>
                UNCHANGED <<accessToken, refreshToken>>
          /\ last'.settled \in {"pending", "fulfilled", "rejected"}
          /\ UNCHANGED state]_vars

C19_Witness ==
    /\ last.op = "refreshToken"
    /\ last.path = "refreshed"
    /\ accessToken = last.token
    /\ refreshToken # NoRefresh

\* C20: a checkAuth that has run to its end has fulfilled with a boolean,
\* true on success alone; a failed decode or fetch and an insufficient role
\* are found in the error field, not in a rejection
C20_CheckAuthNeverRejects ==
    (last.op = "checkAuth" /\ last.settled # "pending") =>
        /\ last.settled = "fulfilled"
        /\ last.value \in {"true", "false"}
        /\ last.value = "true" <=> last.path = "success"
        /\ last.path \in {"decode_failed", "fetch_failed", "denied"} =>
              state.error # NoError
        /\ last.path \in {"no_token", "decode_failed", "fetch_failed"} =>
              ~state.isAuthenticated

C20_Witness ==
    /\ last.op = "checkAuth"
    /\ last.path = "fetch_failed"
    /\ last.settled = "fulfilled"
    /\ last.value = "false"
    /\ state.error \in ApiErrors

C23_HardDeleteResetOnClose ==
    [][/\ confirmAction' = NoConfirm => ~ui'.hardDelete
       /\ (confirmAction = NoConfirm /\ confirmAction' # NoConfirm) => ~ui'.hardDelete
       /\ last'.step = "mutate" =>
            /\ last'.value = "hard" <=>
                  (last'.path \in {"single-delete", "delete"} /\ ui.hardDelete)
            /\ last'.path \in {"suspend", "bulk-delete"} => last'.value = "soft"
            /\ \A r \in ui'.pending \ ui.pending : r.hard <=> last'.value = "hard"]_vars

C23_Witness ==
    /\ last.op = "UsersPage"
    /\ last.step = "mutate"
    /\ last.path = "single-delete"
    /\ last.value = "hard"
    /\ ui.hardDelete

\* C24: when a bulk request settles, the selection of its listing loses
\* exactly the ids the response reports as succeeded, a failed request leaves
\* the selection alone, and the dialog of the page that sent it is closed
C24_BulkRemovesSucceeded ==
    [][(last'.step \in {"settled", "settled_unmounted"}
        /\ last'.path = "bulkActionMutation") =>
          /\ ui'.selectedIds[last'.op] =
                IF last'.settled = "fulfilled"
                THEN ui.selectedIds[last'.op] \ last'.value
                ELSE ui.selectedIds[last'.op]
          /\ last'.step = "settled" => confirmAction' = NoConfirm]_vars

\* the same for a request whose page is still mounted when it settles
C24_MountedBulkRemovesSucceeded ==
    [][(last'.step = "settled" /\ last'.path = "bulkActionMutation") =>
          /\ ui'.selectedIds[last'.op] =
                IF last'.settled = "fulfilled"
                THEN ui.selectedIds[last'.op] \ last'.value
                ELSE ui.selectedIds[last'.op]
          /\ confirmAction' = NoConfirm]_vars

\* the page numbers of a range, in order
PageNumbers(pages) ==
    [i \in 1..Len(SelectSeq(pages, LAMBDA e : e.kind = "number")) |->
        SelectSeq(pages, LAMBDA e : e.kind = "number")[i].page]

\* C22: for 1 <= currentPage <= totalPages the range has at most 7 entries,
\* its page numbers increase strictly from 1 to totalPages and include
\* currentPage, "..." stands between two numbers exactly when they are not
\* adjacent, up to 7 pages are listed in full, and the inline computation of
\* the older Users page gives the same list
C22_PaginationRange ==
    LET total == ui.totalPages
        current == ui.currentPage
        pages == last.value.hook
        numbers == PageNumbers(pages)
    IN  /\ 1 <= current /\ current <= total
        /\ pages = usePaginationRange(total, current)
        /\ Len(pages) <= 7
        /\ \A i \in 1..(Len(numbers) - 1) : numbers[i] < numbers[i + 1]
        /\ numbers[1] = 1
        /\ numbers[Len(numbers)] = total
        /\ \E i \in 1..Len(numbers) : numbers[i] = current
        /\ pages[1] # Ellipsis /\ pages[Len(pages)] # Ellipsis
        /\ \A i \in 1..(Len(pages) - 1) :
              /\ (pages[i] # Ellipsis /\ pages[i + 1] # Ellipsis)
                    => pages[i + 1].page = pages[i].page + 1
              /\ pages[i + 1] = Ellipsis
                    => /\ pages[i] # Ellipsis /\ pages[i + 2] # Ellipsis
                       /\ pages[i + 2].page > pages[i].page + 1
        /\ total <= 7 => pages = [i \in 1..total |-> Num(i)]
        /\ last.value.inline = pages

\* a range with both markers, reached by a page button
C22_Witness ==
    /\ last.path = "setPage"
    /\ ui.totalPages > 7
    /\ last.value.hook = <<Num(1), Ellipsis, Num(ui.currentPage - 1), Num(ui.currentPage),
                           Num(ui.currentPage + 1), Ellipsis, Num(ui.totalPages)>>

\* C25: whenever the route guard renders the protected subtree the store
\* holds a user whose role is in the minimum allow-list
C25_ChildrenOnlyForAllowedUser ==
    \A location \in Locations :
        ProtectedRoute(state, location).element = "children"
            => /\ state.user # NoUser
               /\ state.user.role \in {"admin", "super_admin", "moderator", "finance"}

\* C26: right after a checkAuth call has completed, a store that has no
\* session operation in flight and is authenticated has an access token in
\* storage
C26_AuthenticatedHasToken ==
    (/\ last.op = "checkAuth"
     /\ last.settled # "pending"
     /\ inflight = EmptyBag
     /\ state.isAuthenticated)
    => accessToken # NoToken

\* C27: the completion of a checkAuth or logout call that was already in
\* flight when login() stored its tokens leaves those tokens in storage
C27_LoginTokensSurviveOlderCalls ==
    [][(/\ last.op = "login"
        /\ last'.op \in {"checkAuth", "logout"}
        /\ last'.step = "resolve")
       => /\ accessToken' = accessToken
          /\ refreshToken' = refreshToken]_vars

\* C28: isLoading is true in every state in which a checkAuth call past its
\* token check, or a logout call, is still in flight
C28_LoadingWhileInFlight ==
    inflight # EmptyBag => state.isLoading

\* C29: after a click on Logout, in the dashboard or on the access-denied
\* page, the application eventually is at /login with the store
\* unauthenticated, whether the notification succeeds or fails
C29_LogoutLeadsToLogin ==
    (last.op \in LogoutCallers /\ last.step = "call")
        ~> (ui.location = "/login" /\ ~state.isAuthenticated)

\* the same for the dashboard's button alone
C29_DashboardLogoutLeadsToLogin ==
    (last.op = "DashboardLayout" /\ last.step = "call")
        ~> (ui.location = "/login" /\ ~state.isAuthenticated)

============================================================================
